---- MODULE Spec2Model ----
(***************************************************************************)
(* Model of the signal-aws command line tool: main() parses and validates  *)
(* the configuration, builds the logger and the overall-timeout context,   *)
(* and calls run(), which determines the status (explicit flag or command  *)
(* exit code), resolves the instance ID and region (override or IMDS),     *)
(* publishes one signal and hands a RunResult back to main(), which maps   *)
(* it to the process exit code.                                            *)
(*                                                                         *)
(* The three collaborators (Executor, IMDSClient, Publisher) are Go        *)
(* interfaces; what they return is an input of the flow, drawn here from   *)
(* small sets.                                                             *)
(***************************************************************************)
EXTENDS Integers, Sequences, FiniteSets, TLC

\* ---------------------------------------------------------------- bounds
\* Largest exit code the executor is made to return (smallest is -1).
MaxExitCode == 2
\* Largest value of the --retries flag tried (smallest is -1).
MaxRetries == 1
\* Most send attempts of one publish call that are followed; after that only
\* the publish deadline ends the call.
MaxSends == 3
\* Number of goroutines that call a test double concurrently.
NumCallers == 3
\* Largest n a MockPublisher is given with SetFailFirstNCalls(n).
MaxFailCount == 2

\* ---------------------------------------------------------------- values
\* Go's nil error.
Nil == "<nil>"

QueueURLs       == {"", "https://sqs/test-queue"}
SignalIDs       == {"", "test-signal"}
ExecCommands    == {"", "exit N"}
StatusFlags     == {"", "SUCCESS", "FAILURE", "BOGUS"}
InstanceIDFlags == {"", "i-abc"}
RegionFlags     == {"", "eu-west-1"}
RetryFlags      == -1..MaxRetries
PublishTimeouts == {5, 10}

\* What an Executor may return: any exit code, with or without an error.
ExitCodes  == -1..MaxExitCode
ExecErrors == {Nil, "command not found"}
\* How cmd.Run() of DefaultExecutor ends: the shell exited with a code, the
\* shell was terminated by a signal, or the shell could not be started.
CmdRunOutcomes ==
    {[kind |-> "exited", code |-> c] : c \in 0..MaxExitCode}
        \cup {[kind |-> "signaled", code |-> -1],
              [kind |-> "not started", code |-> -1]}
\* The executor is not DefaultExecutor, or has not run: no cmd.Run() outcome.
NoCmdRun == [kind |-> "", code |-> -1]
\* The region of the ambient AWS configuration (environment, shared config)
\* that config.LoadDefaultConfig resolves; "" when there is none.
AmbientRegions == {"", "ap-south-1"}
\* What an IMDSClient may return: <<value, err>>. Both clients of the
\* repository (DefaultIMDSClient, MockIMDSClient) return "" with an error.
IMDSInstanceIDs == {"", "i-1234567890abcdef0"}
IMDSRegions     == {"", "us-east-1"}
IMDSErrors      == {"IMDS unavailable"}
IMDSReturns(values) ==
    {<<v, Nil>> : v \in values} \cup {<<"", e>> : e \in IMDSErrors}
\* What a lookup returns when called with the context ctx: the metadata
\* request of DefaultIMDSClient is made with ctx and fails once ctx is done.
\* (The test doubles ignore ctx, and are only ever given a context that is
\* never done.)
IMDSReturnsWith(done, values) ==
    IF done THEN {<<"", e>> : e \in IMDSErrors} ELSE IMDSReturns(values)
\* What a Publisher may return.
PublishErrors == {Nil, "failed to load AWS config",
                  "context deadline exceeded",
                  "exceeded maximum number of attempts",
                  "non-retryable send error"}
\* How one send attempt of the transport ends.
SendOutcomes == {"ok", "retryable", "fatal"}

\* The command line: one value per flag.
Args == [QueueURL : QueueURLs, ID : SignalIDs, Exec : ExecCommands,
         Status : StatusFlags, InstanceID : InstanceIDFlags,
         Region : RegionFlags, Retries : RetryFlags,
         PublishTimeout : PublishTimeouts]

\* No error returned by run().
NoRunError == <<>>

VARIABLES
    pc,          \* position of main(): "main", "logger", "run", "executing",
                 \* "instance", "region", "publish", "sending", "returned",
                 \* "exited"
    args,        \* the command line of this invocation
    ambientRegion, \* the region of the ambient AWS configuration
    cfg,         \* the Config ParseConfig returned
    parseErr,    \* the error ParseConfig returned
    ctxDone,     \* the overall-timeout context has expired
    ctxDoneAt,   \* where main() was when it expired, "" before
    sendAttempts,\* SendMessage attempts the transport made in Publish
    sentMessages,\* the SendMessageInputs the transport sent, one per attempt
    publishCtxDone, \* publishCtx's own deadline (the publish timeout) passed
    awsCfg,      \* the aws.Config SQSPublisher.Publish loaded
    status,      \* run's local: status
    result,      \* run's local: *RunResult
    instanceID,  \* run's local: instanceID
    region,      \* run's local: region
    execRet,     \* what executor.Run returned: <<exitCode, err>>, <<>> before
    cmdRun,      \* how cmd.Run() ended in DefaultExecutor.Run, NoCmdRun else
    idErr,       \* error returned by imdsClient.GetInstanceID
    regionErr,   \* error returned by imdsClient.GetRegion
    pubErr,      \* error returned by publisher.Publish
    runErr,      \* the error run returned: <<prefix, cause>> or <<>>
    execCalls,   \* command lines the executor was run with, in order
    imdsCalls,   \* IMDS lookups made, in order
    imdsRets,    \* what each of them returned: <<value, err>>
    callOrder,   \* all collaborator calls of run, in the order made
    pubCalls,    \* PublishInputs the publisher was called with, in order
    exitCode,    \* process exit code, -1 while running
    mock,        \* the fields of a test double shared by concurrent callers
    callers      \* the goroutines calling it: position and locals of each

vars == <<pc, args, ambientRegion, cfg, parseErr, ctxDone, ctxDoneAt,
          sendAttempts, sentMessages, publishCtxDone, awsCfg, status, result,
          instanceID, region, execRet, cmdRun, idErr, regionErr, pubErr,
          runErr, execCalls, imdsCalls, imdsRets, callOrder, pubCalls,
          exitCode, mock, callers>>

mocks     == <<mock, callers>>
inputs    == <<args, ambientRegion>>
runLocals == <<status, result, instanceID, region>>
returns   == <<execRet, cmdRun, idErr, regionErr, pubErr>>
callLogs  == <<execCalls, imdsCalls, imdsRets, callOrder, pubCalls>>
context   == <<ctxDone, ctxDoneAt>>
transport == <<sendAttempts, sentMessages, publishCtxDone, awsCfg>>

\* Zero value of Config.
ZeroConfig == [QueueURL |-> "", ID |-> "", Exec |-> "", Status |-> "",
               InstanceID |-> "", Region |-> "", Retries |-> 0,
               PublishTimeout |-> 0]

\* No aws.Config loaded yet.
NoAWSConfig == [Loaded |-> FALSE, Region |-> ""]

\* The test doubles of the repository.
MockKinds == {"MockExecutor", "MockPublisher", "MockIMDSClient"}

\* The goroutines that call a test double.
Callers == 1..NumCallers

\* The error a test double is set to return (SetError, SetInstanceIDError).
MockErrors == {Nil, "mock error"}

\* MockPublisher.Publish: the error of a call made to fail.
SimulatedError == "simulated transient error"

\* A test double as its constructor and setters leave it: the mutex mu free
\* (0, else the goroutine that holds it), no call recorded; rets is the
\* log of <<caller, returned error>> in the order the calls returned.
NewMock(kind, failCount, err) ==
    [kind |-> kind, mu |-> 0, calls |-> <<>>, callCount |-> 0,
     failCount |-> failCount, err |-> err, rets |-> <<>>]

\* No test double: the process itself runs.
NoMock == NewMock("", 0, Nil)

\* A goroutine about to call the test double; calls and count are its
\* copies of the fields it read.
NewCaller == [pc |-> "start", calls |-> <<>>, count |-> 0]

\* RunResult as run() creates it.
NewRunResult == [Status |-> "", ShouldExit |-> FALSE, ExitCode |-> 0]

\* ------------------------------------------------------------ ParseConfig
\* Fault variant of ValidateConfig: the value of --status is not checked.
ValidateConfig_NoStatusValueCheck(a) ==
    IF a.QueueURL = "" THEN "--queue-url is required"
    ELSE IF a.ID = "" THEN "--id is required"
    ELSE IF a.Exec = "" /\ a.Status = ""
         THEN "either --exec or --status must be provided"
    ELSE Nil

\* Fault variant of ValidateConfig: the presence of --exec or --status is
\* not checked.
ValidateConfig_NoExecOrStatusCheck(a) ==
    IF a.QueueURL = "" THEN "--queue-url is required"
    ELSE IF a.ID = "" THEN "--id is required"
    ELSE IF a.Status # "" /\ a.Status # "SUCCESS" /\ a.Status # "FAILURE"
         THEN "--status must be either SUCCESS or FAILURE"
    ELSE Nil

\* Fault variant of ValidateConfig: the signal ID is checked before the queue
\* URL.
ValidateConfig_IDFirst(a) ==
    IF a.ID = "" THEN "--id is required"
    ELSE IF a.QueueURL = "" THEN "--queue-url is required"
    ELSE IF a.Exec = "" /\ a.Status = ""
         THEN "either --exec or --status must be provided"
    ELSE IF a.Status # "" /\ a.Status # "SUCCESS" /\ a.Status # "FAILURE"
         THEN "--status must be either SUCCESS or FAILURE"
    ELSE Nil

\* The validation of ParseConfig: the first failing check's message, or Nil.
ValidateConfig(a) ==
    IF a.QueueURL = "" THEN "--queue-url is required"
    ELSE IF a.ID = "" THEN "--id is required"
    ELSE IF a.Exec = "" /\ a.Status = ""
         THEN "either --exec or --status must be provided"
    ELSE IF a.Status # "" /\ a.Status # "SUCCESS" /\ a.Status # "FAILURE"
         THEN "--status must be either SUCCESS or FAILURE"
    ELSE Nil

Init ==
    /\ pc = "main"
    /\ args \in Args
    /\ ambientRegion \in AmbientRegions
    /\ cfg = ZeroConfig
    /\ parseErr = Nil
    /\ ctxDone = FALSE
    /\ ctxDoneAt = ""
    /\ sendAttempts = 0
    /\ sentMessages = <<>>
    /\ publishCtxDone = FALSE
    /\ awsCfg = NoAWSConfig
    /\ status = ""
    /\ result = NewRunResult
    /\ instanceID = ""
    /\ region = ""
    /\ execRet = <<>>
    /\ cmdRun = NoCmdRun
    /\ idErr = Nil
    /\ regionErr = Nil
    /\ pubErr = Nil
    /\ runErr = NoRunError
    /\ execCalls = <<>>
    /\ imdsCalls = <<>>
    /\ imdsRets = <<>>
    /\ callOrder = <<>>
    /\ pubCalls = <<>>
    /\ exitCode = -1
    /\ mock = NoMock
    /\ callers = [g \in Callers |-> NewCaller]

\* main: cfg, err := signal.ParseConfig(); on error os.Exit(2).
ParseConfig ==
    /\ pc = "main"
    /\ parseErr' = ValidateConfig(args)
    /\ IF ValidateConfig(args) # Nil
       THEN /\ pc' = "exited"
            /\ exitCode' = 2
            /\ cfg' = cfg
       ELSE /\ pc' = "logger"
            /\ cfg' = args
            /\ exitCode' = exitCode
    /\ UNCHANGED <<mocks, inputs, context, transport, runLocals, returns, runErr,
                   callLogs>>

\* main: signal.NewLogger; on error os.Exit(2); then the overall-timeout
\* context and the components are created and run() is entered.
NewLogger ==
    /\ pc = "logger"
    /\ \E ok \in BOOLEAN :
         IF ok THEN pc' = "run" /\ exitCode' = exitCode
               ELSE pc' = "exited" /\ exitCode' = 2
    /\ UNCHANGED <<mocks, inputs, cfg, parseErr, context, transport, runLocals,
                   returns, runErr, callLogs>>

\* The overall timeout of context.WithTimeout(..., cfg.Timeout) expires.
Timeout ==
    /\ pc \notin {"main", "logger", "exited"}
    /\ ~ctxDone
    /\ ctxDone' = TRUE
    /\ ctxDoneAt' = pc
    /\ UNCHANGED <<mocks, pc, inputs, cfg, parseErr, transport, runLocals, returns,
                   runErr, callLogs, exitCode>>

\* ------------------------------------------------------------------ run
\* Fault variant of StatusFromExec: the exit code is ignored, any launched
\* command counts as a success.
StatusFromExec_IgnoresExitCode(code, err) ==
    IF err # Nil THEN "FAILURE" ELSE "SUCCESS"

\* Fault variant of StatusFromExec: the launch error is ignored, the exit
\* code alone decides.
StatusFromExec_IgnoresLaunchError(code, err) ==
    IF code = 0 THEN "SUCCESS" ELSE "FAILURE"

\* run: the status derived from what executor.Run returned.
StatusFromExec(code, err) ==
    IF err # Nil THEN "FAILURE"
    ELSE IF code = 0 THEN "SUCCESS"
    ELSE "FAILURE"

\* Fault variant of MarkFailure: ShouldExit is set, ExitCode is left at 0.
MarkFailure_NoExitCode(res, st) ==
    IF st = "FAILURE" THEN [res EXCEPT !.ShouldExit = TRUE] ELSE res

\* Fault variant of MarkFailure: every command run is marked, whatever the
\* status.
MarkFailure_Always(res, st) ==
    [res EXCEPT !.ShouldExit = TRUE, !.ExitCode = 1]

\* run: "Mark that we should exit with code 1 for failures".
MarkFailure(res, st) ==
    IF st = "FAILURE"
    THEN [res EXCEPT !.ShouldExit = TRUE, !.ExitCode = 1]
    ELSE res

\* Fault variant of UsesExecutor: the command is run whenever there is one.
UsesExecutor_WheneverExecSet(c) == c.Exec # ""

\* run: an explicit status skips the executor; otherwise the command is run.
UsesExecutor(c) == c.Status = ""

\* Fault variant of ExplicitResult: an explicit FAILURE is marked for exit
\* code 1 like a failed command.
ExplicitResult_MarksFailure(st) ==
    [MarkFailure(NewRunResult, st) EXCEPT !.Status = st]

\* run: the result with an explicit status: the marking of failures is inside
\* the branch that runs the command, so ShouldExit and ExitCode stay as
\* created.
ExplicitResult(st) == [NewRunResult EXCEPT !.Status = st]

\* run: status := cfg.Status; with no explicit status executor.Run(cfg.Exec)
\* is called, otherwise result.Status is set at once.
DetermineStatus ==
    /\ pc = "run"
    /\ IF UsesExecutor(cfg)
       THEN /\ execCalls' = Append(execCalls, cfg.Exec)
            /\ callOrder' = Append(callOrder, "executor")
            /\ pc' = "executing"
            /\ status' = cfg.Status
            /\ result' = NewRunResult
       ELSE /\ execCalls' = execCalls
            /\ callOrder' = callOrder
            /\ pc' = "instance"
            /\ status' = cfg.Status
            /\ result' = ExplicitResult(cfg.Status)
    /\ UNCHANGED <<mocks, inputs, cfg, parseErr, context, transport, instanceID,
                   region, returns, runErr, imdsCalls, imdsRets, pubCalls,
                   exitCode>>

\* (*exec.ExitError).ExitCode(), as os.ProcessState.ExitCode documents it:
\* the exit code of the exited process, or -1 when the process was
\* terminated by a signal.
ExitErrorExitCode(o) == IF o.kind = "exited" THEN o.code ELSE -1

\* DefaultExecutor.Run: cmd.Run() returns nil when the shell exited with 0,
\* an *exec.ExitError when it exited with another code or was terminated by
\* a signal, and another error when it could not be started. An ExitError
\* gives (ExitCode(), nil), another error gives (-1, err).
DefaultExecutorRun(o) ==
    IF o.kind = "exited" /\ o.code = 0 THEN <<0, Nil>>
    ELSE IF o.kind \in {"exited", "signaled"}
         THEN <<ExitErrorExitCode(o), Nil>>
    ELSE <<-1, "command not found">>

\* What executor.Run may return, with the cmd.Run() outcome behind it: what
\* DefaultExecutor makes of an outcome, or whatever a test double is set to
\* (MockExecutor: any exit code, with or without an error).
ExecutorReturns ==
    {<<o, DefaultExecutorRun(o)>> : o \in CmdRunOutcomes}
        \cup {<<NoCmdRun, <<code, err>>>> :
                  code \in ExitCodes, err \in ExecErrors}

\* Fault variant of ExecutorReturn: run returns right after a failed command,
\* without going on to the identity and the publish.
ExecutorReturn_ReturnsOnFailure ==
    /\ pc = "executing"
    /\ \E ret \in ExecutorReturns :
         /\ cmdRun' = ret[1]
         /\ execRet' = ret[2]
         /\ status' = StatusFromExec(ret[2][1], ret[2][2])
         /\ result' = [MarkFailure(result, StatusFromExec(ret[2][1], ret[2][2]))
                         EXCEPT !.Status = StatusFromExec(ret[2][1], ret[2][2])]
         /\ pc' = IF StatusFromExec(ret[2][1], ret[2][2]) = "FAILURE"
                  THEN "returned" ELSE "instance"
         /\ UNCHANGED <<execCalls, callOrder>>
    /\ UNCHANGED <<mocks, inputs, cfg, parseErr, context, transport, instanceID,
                   region, idErr, regionErr, pubErr, runErr, imdsCalls,
                   imdsRets, pubCalls, exitCode>>

\* Fault variant of ExecutorReturn: after a failed command run goes back and
\* executes the command once more.
ExecutorReturn_RunsAgainOnFailure ==
    /\ pc = "executing"
    /\ \E ret \in ExecutorReturns :
         /\ cmdRun' = ret[1]
         /\ execRet' = ret[2]
         /\ status' = StatusFromExec(ret[2][1], ret[2][2])
         /\ result' = [MarkFailure(result, StatusFromExec(ret[2][1], ret[2][2]))
                         EXCEPT !.Status = StatusFromExec(ret[2][1], ret[2][2])]
         /\ IF StatusFromExec(ret[2][1], ret[2][2]) = "FAILURE"
               /\ Len(execCalls) < 2
            THEN /\ pc' = "executing"
                 /\ execCalls' = Append(execCalls, cfg.Exec)
                 /\ callOrder' = Append(callOrder, "executor")
            ELSE /\ pc' = "instance"
                 /\ UNCHANGED <<execCalls, callOrder>>
    /\ UNCHANGED <<mocks, inputs, cfg, parseErr, context, transport, instanceID,
                   region, idErr, regionErr, pubErr, runErr, imdsCalls,
                   imdsRets, pubCalls, exitCode>>

\* run: executor.Run returns (code, err); status and result follow.
ExecutorReturn ==
    /\ pc = "executing"
    /\ \E ret \in ExecutorReturns :
         /\ cmdRun' = ret[1]
         /\ execRet' = ret[2]
         /\ status' = StatusFromExec(ret[2][1], ret[2][2])
         /\ result' = [MarkFailure(result, StatusFromExec(ret[2][1], ret[2][2]))
                         EXCEPT !.Status = StatusFromExec(ret[2][1], ret[2][2])]
    /\ pc' = "instance"
    /\ UNCHANGED <<mocks, inputs, cfg, parseErr, context, transport, instanceID,
                   region, idErr, regionErr, pubErr, runErr, callLogs,
                   exitCode>>

\* Fault variant of UsesInstanceIDOverride: IMDS is always asked.
UsesInstanceIDOverride_Never(c) == FALSE

\* run: the provided instance ID is used when there is one.
UsesInstanceIDOverride(c) == c.InstanceID # ""

\* Fault variant of InstanceIDLookupFatal: a failed lookup is let through,
\* as for the region.
InstanceIDLookupFatal_Never(err) == FALSE

\* run: a failed instance ID lookup makes run return.
InstanceIDLookupFatal(err) == err # Nil

\* run: the error returned when the instance ID lookup fails.
InstanceIDError(err) == <<"failed to get instance ID: ", err>>

\* run: "Get instance ID - use provided value or fetch from IMDS".
ResolveInstanceID ==
    /\ pc = "instance"
    /\ IF UsesInstanceIDOverride(cfg)
       THEN /\ instanceID' = cfg.InstanceID
            /\ pc' = "region"
            /\ UNCHANGED <<idErr, runErr, imdsCalls, imdsRets, callOrder>>
       ELSE \E ret \in IMDSReturnsWith(ctxDone, IMDSInstanceIDs) :
              /\ imdsCalls' = Append(imdsCalls, "GetInstanceID")
              /\ imdsRets' = Append(imdsRets, ret)
              /\ callOrder' = Append(callOrder, "GetInstanceID")
              /\ instanceID' = ret[1]
              /\ idErr' = ret[2]
              /\ IF InstanceIDLookupFatal(ret[2])
                 THEN /\ runErr' = InstanceIDError(ret[2])
                      /\ pc' = "returned"
                 ELSE /\ runErr' = runErr
                      /\ pc' = "region"
    /\ UNCHANGED <<mocks, inputs, cfg, parseErr, context, transport, status,
                   result, region, execRet, cmdRun, regionErr, pubErr,
                   execCalls, pubCalls, exitCode>>

\* Fault variant of UsesRegionOverride: IMDS is always asked.
UsesRegionOverride_Never(c) == FALSE

\* run: the provided region is used when there is one.
UsesRegionOverride(c) == c.Region # ""

\* Fault variant of ResolveRegion: a failed region lookup makes run return
\* an error, as a failed instance ID lookup does.
ResolveRegion_FatalOnError ==
    /\ pc = "region"
    /\ IF UsesRegionOverride(cfg)
       THEN /\ region' = cfg.Region
            /\ pc' = "publish"
            /\ UNCHANGED <<regionErr, imdsCalls, imdsRets, callOrder, runErr>>
       ELSE \E ret \in IMDSReturnsWith(ctxDone, IMDSRegions) :
              /\ imdsCalls' = Append(imdsCalls, "GetRegion")
              /\ imdsRets' = Append(imdsRets, ret)
              /\ callOrder' = Append(callOrder, "GetRegion")
              /\ region' = ret[1]
              /\ regionErr' = ret[2]
              /\ IF ret[2] # Nil
                 THEN /\ runErr' = <<"failed to get region: ", ret[2]>>
                      /\ pc' = "returned"
                 ELSE /\ runErr' = runErr
                      /\ pc' = "publish"
    /\ UNCHANGED <<mocks, inputs, cfg, parseErr, context, transport, status,
                   result, instanceID, execRet, cmdRun, idErr, pubErr,
                   execCalls, pubCalls, exitCode>>

\* run: "Resolve region - use provided value, fallback to IMDS, then AWS
\* config"; a failed lookup leaves the region empty and the flow goes on.
ResolveRegion ==
    /\ pc = "region"
    /\ IF UsesRegionOverride(cfg)
       THEN /\ region' = cfg.Region
            /\ UNCHANGED <<regionErr, imdsCalls, imdsRets, callOrder>>
       ELSE \E ret \in IMDSReturnsWith(ctxDone, IMDSRegions) :
              /\ imdsCalls' = Append(imdsCalls, "GetRegion")
              /\ imdsRets' = Append(imdsRets, ret)
              /\ callOrder' = Append(callOrder, "GetRegion")
              /\ region' = ret[1]
              /\ regionErr' = ret[2]
    /\ pc' = "publish"
    /\ UNCHANGED <<mocks, inputs, cfg, parseErr, context, transport, status,
                   result, instanceID, execRet, cmdRun, idErr, pubErr, runErr,
                   execCalls, pubCalls, exitCode>>

\* Fault variant of PublishInput: the identity comes from the overrides
\* alone, what the lookups returned is dropped.
PublishInput_OverridesOnly(c, id, st, reg) ==
    [QueueURL |-> c.QueueURL, SignalID |-> c.ID, InstanceID |-> c.InstanceID,
     Status |-> st, Region |-> c.Region, PublishTimeout |-> c.PublishTimeout,
     Retries |-> c.Retries]

\* Fault variant of PublishInput: the queue URL and the signal ID change
\* places.
PublishInput_QueueAndIDSwapped(c, id, st, reg) ==
    [QueueURL |-> c.ID, SignalID |-> c.QueueURL, InstanceID |-> id,
     Status |-> st, Region |-> reg, PublishTimeout |-> c.PublishTimeout,
     Retries |-> c.Retries]

\* Fault variant of PublishInput: the retry count is turned into an attempt
\* count on the way.
PublishInput_RetriesPlusOne(c, id, st, reg) ==
    [QueueURL |-> c.QueueURL, SignalID |-> c.ID, InstanceID |-> id,
     Status |-> st, Region |-> reg, PublishTimeout |-> c.PublishTimeout,
     Retries |-> c.Retries + 1]

\* run: the PublishInput handed to the publisher.
PublishInput(c, id, st, reg) ==
    [QueueURL |-> c.QueueURL, SignalID |-> c.ID, InstanceID |-> id,
     Status |-> st, Region |-> reg, PublishTimeout |-> c.PublishTimeout,
     Retries |-> c.Retries]

\* Fault variant of PublishError: the cause is returned without the prefix.
PublishError_Unwrapped(err) == <<"", err>>

\* run: the error returned when the publish fails.
PublishError(err) == <<"failed to publish signal: ", err>>

\* Fault variant of PublishReturns: after a failed publish run calls the
\* publisher again (up to two more times) before it gives up.
PublishReturns_RetriesOnError(err) ==
    /\ pubErr' = err
    /\ runErr' = IF err # Nil THEN PublishError(err) ELSE runErr
    /\ pc' = IF err # Nil /\ Len(pubCalls) < 2 THEN "publish" ELSE "returned"

\* run: publisher.Publish returned err; run returns result with the wrapped
\* error, or result and nil.
PublishReturns(err) ==
    /\ pubErr' = err
    /\ runErr' = IF err # Nil THEN PublishError(err) ELSE runErr
    /\ pc' = "returned"

\* SQSPublisher.Publish: the aws.Config that config.LoadDefaultConfig(ctx,
\* config.WithRetryer(...)) returns. The retryer is the only option passed:
\* the region is the one the ambient configuration resolves, whatever
\* input.Region is.
LoadDefaultConfig(ambient, input) == [Loaded |-> TRUE, Region |-> ambient]

\* run: publisher.Publish(ctx, publishInput) is called. SQSPublisher.Publish
\* first loads the AWS configuration with the retryer; when that fails it
\* returns the error without sending. Then publishCtx is created.
Publish ==
    /\ pc = "publish"
    /\ pubCalls' = Append(pubCalls,
                          PublishInput(cfg, instanceID, status, region))
    /\ callOrder' = Append(callOrder, "publish")
    /\ \E loaded \in BOOLEAN :
         IF loaded
         THEN /\ pc' = "sending"
              /\ awsCfg' = LoadDefaultConfig(ambientRegion,
                     PublishInput(cfg, instanceID, status, region))
              /\ UNCHANGED <<pubErr, runErr>>
         ELSE /\ PublishReturns("failed to load AWS config")
              /\ awsCfg' = awsCfg
    /\ sendAttempts' = 0
    /\ publishCtxDone' = FALSE
    /\ UNCHANGED <<mocks, inputs, cfg, parseErr, context, sentMessages, runLocals,
                   execRet, cmdRun, idErr, regionErr, execCalls, imdsCalls,
                   imdsRets, exitCode>>

\* SQSPublisher.Publish: the fixed body of every message.
MessageBody == "tcons-signal message"

\* The names of the message attributes.
AttributeNames == {"signal_id", "instance_id", "status"}

\* SQSPublisher.Publish: one message attribute.
StringAttribute(value) == [DataType |-> "String", StringValue |-> value]

\* Fault variant of SendMessageInput: the status is put into the body too.
SendMessageInput_StatusInBody(input) ==
    [QueueUrl |-> input.QueueURL,
     MessageBody |-> input.Status,
     MessageAttributes |->
         [n \in AttributeNames |->
             CASE n = "signal_id"   -> StringAttribute(input.SignalID)
               [] n = "instance_id" -> StringAttribute(input.InstanceID)
               [] n = "status"      -> StringAttribute(input.Status)]]

\* SQSPublisher.Publish: sqsInput, the message built from the input.
SendMessageInput(input) ==
    [QueueUrl |-> input.QueueURL,
     MessageBody |-> MessageBody,
     MessageAttributes |->
         [n \in AttributeNames |->
             CASE n = "signal_id"   -> StringAttribute(input.SignalID)
               [] n = "instance_id" -> StringAttribute(input.InstanceID)
               [] n = "status"      -> StringAttribute(input.Status)]]

\* Fault variant of SendContextDone: publishCtx is not a child of the
\* overall context, only its own deadline ends it.
SendContextDone_NotNested(overall, own) == own

\* SQSPublisher.Publish: publishCtx is context.WithTimeout(ctx,
\* input.PublishTimeout): it is done when the overall context is done or
\* when its own deadline has passed.
SendContextDone(overall, own) == overall \/ own

\* The PublishInput of the publish call under way.
CurrentInput == pubCalls[Len(pubCalls)]

\* Fault variant of MaxAttempts: the retry count is taken for the attempt
\* count and one more is added on top.
MaxAttempts_OneTooMany(input) == input.Retries + 2

\* SQSPublisher.Publish: the attempt count given to the retryer,
\* "+1 because AWS counts attempts, not retries".
MaxAttempts(input) == input.Retries + 1

\* The transport's retry policy: with a positive attempt count max, no
\* attempt follows the max-th one; a count of 0 or less sets no limit.
AttemptsExhausted(max, made) == max > 0 /\ made >= max

\* SQSPublisher.Publish: client.SendMessage(publishCtx, ...) makes one more
\* attempt; nothing is sent on a context that is done. Success and a
\* non-retryable error end the call; a retryable error ends it when the
\* attempts are exhausted and is retried otherwise.
SendAttempt ==
    /\ pc = "sending"
    /\ ~SendContextDone(ctxDone, publishCtxDone)
    /\ sendAttempts < MaxSends
    /\ sendAttempts' = sendAttempts + 1
    /\ sentMessages' = Append(sentMessages, SendMessageInput(CurrentInput))
    /\ \E outcome \in SendOutcomes :
         CASE outcome = "ok" -> PublishReturns(Nil)
           [] outcome = "fatal" -> PublishReturns("non-retryable send error")
           [] outcome = "retryable" ->
                IF AttemptsExhausted(MaxAttempts(CurrentInput),
                                     sendAttempts + 1)
                THEN PublishReturns("exceeded maximum number of attempts")
                ELSE UNCHANGED <<pc, pubErr, runErr>>
    /\ UNCHANGED <<mocks, inputs, cfg, parseErr, context, publishCtxDone, awsCfg,
                   runLocals, execRet, cmdRun, idErr, regionErr, callLogs,
                   exitCode>>

\* The publish timeout of context.WithTimeout(ctx, input.PublishTimeout)
\* passes while the send is under way.
PublishDeadline ==
    /\ pc = "sending"
    /\ ~publishCtxDone
    /\ publishCtxDone' = TRUE
    /\ UNCHANGED <<mocks, pc, inputs, cfg, parseErr, context, sendAttempts,
                   sentMessages, awsCfg, runLocals, returns, runErr,
                   callLogs, exitCode>>

\* SQSPublisher.Publish: publishCtx, the child of the overall context with
\* the publish timeout, is done; SendMessage returns its error.
SendDeadline ==
    /\ pc = "sending"
    /\ SendContextDone(ctxDone, publishCtxDone)
    /\ PublishReturns("context deadline exceeded")
    /\ UNCHANGED <<mocks, inputs, cfg, parseErr, context, transport, runLocals,
                   execRet, cmdRun, idErr, regionErr, callLogs, exitCode>>

\* ----------------------------------------------------------------- main
\* Fault variant of MainExitCode: ShouldExit is looked at before the error.
MainExitCode_ShouldExitFirst(res, err) ==
    IF res.ShouldExit THEN res.ExitCode
    ELSE IF err # NoRunError THEN 2
    ELSE 0

\* Fault variant of MainExitCode: the error of run is not looked at.
MainExitCode_IgnoresError(res, err) ==
    IF res.ShouldExit THEN res.ExitCode ELSE 0

\* main: the exit code after run returned (res, err): 2 on an error,
\* result.ExitCode when ShouldExit, otherwise main returns (exit code 0).
MainExitCode(res, err) ==
    IF err # NoRunError THEN 2
    ELSE IF res.ShouldExit THEN res.ExitCode
    ELSE 0

\* main: the process ends.
Exit ==
    /\ pc = "returned"
    /\ exitCode' = MainExitCode(result, runErr)
    /\ pc' = "exited"
    /\ UNCHANGED <<mocks, inputs, cfg, parseErr, context, transport, runLocals,
                   returns, runErr, callLogs>>

Next ==
    \/ ParseConfig
    \/ NewLogger
    \/ Timeout
    \/ DetermineStatus
    \/ ExecutorReturn
    \/ ResolveInstanceID
    \/ ResolveRegion
    \/ Publish
    \/ SendAttempt
    \/ PublishDeadline
    \/ SendDeadline
    \/ Exit

Spec == Init /\ [][Next]_vars

\* Every step of the single-threaded program is eventually taken, and the
\* calls that are given a context return: the publish timeout passes and
\* ends a send that does not end by itself. Nothing makes the child command
\* return: executor.Run waits for it however long it runs.
FairSpec == Spec /\ WF_vars(ParseConfig \/ NewLogger \/ DetermineStatus
                            \/ ResolveInstanceID \/ ResolveRegion \/ Publish
                            \/ SendAttempt \/ PublishDeadline
                            \/ SendDeadline \/ Exit)

TypeOK ==
    /\ pc \in {"main", "logger", "run", "executing", "instance", "region",
               "publish", "sending", "returned", "exited"}
    /\ args \in Args
    /\ ambientRegion \in AmbientRegions
    /\ ctxDone \in BOOLEAN
    /\ publishCtxDone \in BOOLEAN
    /\ ctxDoneAt \in {"", "run", "executing", "instance", "region", "publish",
                      "sending", "returned"}
    /\ sendAttempts \in 0..MaxSends
    /\ Len(sentMessages) = sendAttempts
    /\ awsCfg \in [Loaded : BOOLEAN, Region : AmbientRegions]
    /\ cmdRun \in CmdRunOutcomes \cup {NoCmdRun}
    /\ pubErr \in PublishErrors
    /\ status \in {"", "SUCCESS", "FAILURE"}
    /\ result \in [Status : {"", "SUCCESS", "FAILURE"}, ShouldExit : BOOLEAN,
                   ExitCode : {0, 1}]
    /\ exitCode \in {-1, 0, 1, 2}
    /\ Len(execCalls) <= 1
    /\ Len(imdsCalls) <= 2
    /\ Len(imdsRets) = Len(imdsCalls)
    /\ Len(callOrder) = Len(execCalls) + Len(imdsCalls) + Len(pubCalls)
    /\ mock.kind \in MockKinds \cup {""}
    /\ mock.mu \in Callers \cup {0}
    /\ DOMAIN callers = Callers

\* ------------------------------------------------------------ test doubles
\* The variables of the process, which a test of the test doubles leaves
\* alone.
process == <<pc, inputs, cfg, parseErr, context, transport, runLocals,
             returns, runErr, callLogs, exitCode>>

\* N goroutines are about to call one fresh test double, set up with
\* SetFailFirstNCalls(n) and SetError(e). No process runs.
MockInit ==
    /\ mock \in {NewMock(k, n, e) :
                    k \in MockKinds, n \in 0..MaxFailCount, e \in MockErrors}
    /\ callers = [g \in Callers |-> NewCaller]
    /\ pc = "main"
    /\ args = [QueueURL |-> "", ID |-> "", Exec |-> "", Status |-> "",
               InstanceID |-> "", Region |-> "", Retries |-> 0,
               PublishTimeout |-> 5]
    /\ ambientRegion = ""
    /\ cfg = ZeroConfig
    /\ parseErr = Nil
    /\ ctxDone = FALSE
    /\ ctxDoneAt = ""
    /\ sendAttempts = 0
    /\ sentMessages = <<>>
    /\ publishCtxDone = FALSE
    /\ awsCfg = NoAWSConfig
    /\ status = ""
    /\ result = NewRunResult
    /\ instanceID = ""
    /\ region = ""
    /\ execRet = <<>>
    /\ cmdRun = NoCmdRun
    /\ idErr = Nil
    /\ regionErr = Nil
    /\ pubErr = Nil
    /\ runErr = NoRunError
    /\ execCalls = <<>>
    /\ imdsCalls = <<>>
    /\ imdsRets = <<>>
    /\ callOrder = <<>>
    /\ pubCalls = <<>>
    /\ exitCode = -1

\* Fault variant of CanLock: the mutex excludes nobody.
CanLock_NoMutex(mu) == TRUE

\* sync.Mutex: Lock() returns only while no goroutine holds the mutex.
CanLock(mu) == mu = 0

\* m.mu.Lock() at the top of Run, Publish, GetInstanceID, GetRegion. The
\* executor and the publisher go on to record the call, the IMDS client to
\* count it.
MockLock(g) ==
    /\ callers[g].pc = "start"
    /\ CanLock(mock.mu)
    /\ mock' = [mock EXCEPT !.mu = g]
    /\ callers' = [callers EXCEPT ![g].pc =
                       IF mock.kind = "MockIMDSClient" THEN "count"
                       ELSE "append"]
    /\ UNCHANGED process

\* m.calls = append(m.calls, ...), first half: m.calls is read.
MockReadCalls(g) ==
    /\ callers[g].pc = "append"
    /\ callers' = [callers EXCEPT ![g].calls = mock.calls,
                                  ![g].pc = "appended"]
    /\ UNCHANGED <<mock, process>>

\* m.calls = append(m.calls, ...), second half: the longer slice is stored.
\* The executor then returns, the publisher goes on to count the call.
MockAppendCall(g) ==
    /\ callers[g].pc = "appended"
    /\ mock' = [mock EXCEPT !.calls = Append(callers[g].calls, g)]
    /\ callers' = [callers EXCEPT ![g].pc =
                       IF mock.kind = "MockExecutor" THEN "return"
                       ELSE "count"]
    /\ UNCHANGED process

\* m.callCount++, first half: m.callCount is read.
MockReadCount(g) ==
    /\ callers[g].pc = "count"
    /\ callers' = [callers EXCEPT ![g].count = mock.callCount,
                                  ![g].pc = "counted"]
    /\ UNCHANGED <<mock, process>>

\* m.callCount++, second half: the count plus one is stored.
MockStoreCount(g) ==
    /\ callers[g].pc = "counted"
    /\ mock' = [mock EXCEPT !.callCount = callers[g].count + 1]
    /\ callers' = [callers EXCEPT ![g].pc = "return"]
    /\ UNCHANGED process

\* Fault variant of FailsCall: one call fewer is made to fail.
FailsCall_OneFewer(count, failCount) == count < failCount

\* MockPublisher.Publish: "Simulate failing first N calls".
FailsCall(count, failCount) == count <= failCount

\* The error a call returns: the publisher's simulated error for a call made
\* to fail, otherwise the error the test double is set to.
MockResult(m) ==
    IF m.kind = "MockPublisher" /\ FailsCall(m.callCount, m.failCount)
    THEN SimulatedError
    ELSE m.err

\* The call returns and the deferred m.mu.Unlock() runs.
MockReturn(g) ==
    /\ callers[g].pc = "return"
    /\ mock' = [mock EXCEPT !.rets = Append(mock.rets, <<g, MockResult(mock)>>),
                            !.mu = 0]
    /\ callers' = [callers EXCEPT ![g].pc = "done"]
    /\ UNCHANGED process

\* CallCount() of the test double: len(m.calls) for the executor and the
\* publisher, m.callCount for the IMDS client.
CallCount(m) ==
    IF m.kind = "MockIMDSClient" THEN m.callCount ELSE Len(m.calls)

MockNext ==
    \E g \in Callers :
        \/ MockLock(g)
        \/ MockReadCalls(g)
        \/ MockAppendCall(g)
        \/ MockReadCount(g)
        \/ MockStoreCount(g)
        \/ MockReturn(g)

MockSpec == MockInit /\ [][MockNext]_vars

\* ----------------------------------------------------------- properties
\* The process has ended.
Exited == pc = "exited"

\* The executor was run and has returned.
CommandRan == execRet # <<>>

\* The executed command failed: launch error or non-zero exit code.
CommandFailed == CommandRan /\ (execRet[2] # Nil \/ execRet[1] # 0)

\* The executor returned a launch error.
LaunchError == CommandRan /\ execRet[2] # Nil

\* The IMDS lookup op was made.
LookedUp(op) == \E i \in 1..Len(imdsCalls) : imdsCalls[i] = op

\* An instance ID is there: supplied on the command line or looked up.
InstanceIDAvailable ==
    \/ args.InstanceID # ""
    \/ LookedUp("GetInstanceID") /\ idErr = Nil

\* The publisher was called and has returned.
PublishReturned == pubCalls # <<>> /\ pc \in {"returned", "exited"}

\* The publisher was called and returned no error / an error.
PublishSucceeded == PublishReturned /\ pubErr = Nil
PublishFailed    == PublishReturned /\ pubErr # Nil

\* C1: when the executed command failed and an instance ID is available, the
\* publisher has been called exactly once, with status FAILURE, by the time
\* the process exits (and never more than once, or with another status,
\* before that).
C1_FailedCommandStillPublishes ==
    (CommandFailed /\ InstanceIDAvailable) =>
        /\ Len(pubCalls) <= 1
        /\ \A i \in 1..Len(pubCalls) : pubCalls[i].Status = "FAILURE"
        /\ Exited => Len(pubCalls) = 1

C1_Witness ==
    /\ Exited /\ CommandFailed /\ InstanceIDAvailable
    /\ execRet[1] = 2 /\ execRet[2] = Nil
    /\ Len(pubCalls) = 1 /\ pubCalls[1].Status = "FAILURE"

\* C2 as stated: with exec set and status unset, the published status is
\* SUCCESS iff the exit code the executor returned is exactly 0.
C2_StatusIffExitCodeZero ==
    (args.Exec # "" /\ args.Status = "" /\ CommandRan) =>
        \A i \in 1..Len(pubCalls) :
            (pubCalls[i].Status = "SUCCESS") <=> (execRet[1] = 0)

\* C2 amended: with exec set and status unset, the published status is
\* SUCCESS iff the executor returned exit code 0 and no launch error.
C2_StatusIffExitCodeZeroNoError ==
    (args.Exec # "" /\ args.Status = "" /\ CommandRan) =>
        \A i \in 1..Len(pubCalls) :
            /\ pubCalls[i].Status \in {"SUCCESS", "FAILURE"}
            /\ (pubCalls[i].Status = "SUCCESS")
                   <=> (execRet[1] = 0 /\ execRet[2] = Nil)

C2_Witness ==
    /\ args.Exec # "" /\ args.Status = ""
    /\ execRet = <<0, Nil>>
    /\ Len(pubCalls) = 1 /\ pubCalls[1].Status = "SUCCESS"

\* C3: with status explicitly SUCCESS or FAILURE (exec set or not) the
\* executor is never invoked and every published status is the explicit one.
C3_ExplicitStatusSkipsExecutor ==
    (args.Status \in {"SUCCESS", "FAILURE"}) =>
        /\ execCalls = <<>>
        /\ pc # "executing"
        /\ \A i \in 1..Len(pubCalls) : pubCalls[i].Status = args.Status

C3_Witness ==
    /\ args.Status = "FAILURE" /\ args.Exec # ""
    /\ Exited /\ Len(pubCalls) = 1 /\ pubCalls[1].Status = "FAILURE"
    /\ execCalls = <<>>

\* C4: when the publish call returned an error the process exit code is 2,
\* also when the result carries ShouldExit with exit code 1.
C4_PublishFailureExits2 ==
    (Exited /\ PublishFailed) => exitCode = 2

C4_Witness ==
    /\ Exited /\ PublishFailed
    /\ pubErr = "context deadline exceeded"
    /\ result.ShouldExit /\ result.ExitCode = 1
    /\ exitCode = 2

\* C5: with no instance ID override and a failed instance ID lookup the
\* publisher is never invoked and the process ends with exit code 2.
C5_InstanceIDFailureIsFatal ==
    (args.InstanceID = "" /\ LookedUp("GetInstanceID") /\ idErr # Nil) =>
        /\ pubCalls = <<>>
        /\ pc \in {"returned", "exited"}
        /\ Exited => exitCode = 2

C5_Witness ==
    /\ Exited /\ args.InstanceID = "" /\ idErr # Nil
    /\ result.ShouldExit /\ status = "FAILURE"
    /\ pubCalls = <<>> /\ exitCode = 2

\* C6: publish succeeded and the status is FAILURE because the command
\* failed: the process exit code is 1.
C6_PublishedCommandFailureExits1 ==
    (Exited /\ PublishSucceeded /\ CommandFailed /\ status = "FAILURE") =>
        exitCode = 1

C6_Witness ==
    /\ Exited /\ PublishSucceeded /\ CommandFailed /\ status = "FAILURE"
    /\ pubCalls[1].Status = "FAILURE" /\ exitCode = 1

\* C7: publish succeeded and the status is SUCCESS: the process exit code
\* is 0.
C7_PublishedSuccessExits0 ==
    (Exited /\ PublishSucceeded /\ status = "SUCCESS") => exitCode = 0

C7_Witness ==
    /\ Exited /\ PublishSucceeded /\ status = "SUCCESS" /\ CommandRan
    /\ pubCalls[1].Status = "SUCCESS" /\ exitCode = 0

C9_LaunchErrorIsCommandFailure ==
    LaunchError =>
        /\ status = "FAILURE" /\ result.Status = "FAILURE"
        /\ result.ShouldExit /\ result.ExitCode = 1
        /\ runErr # NoRunError => (idErr # Nil \/ pubErr # Nil)
        /\ \A i \in 1..Len(pubCalls) : pubCalls[i].Status = "FAILURE"
        /\ (pc \in {"returned", "exited"} /\ InstanceIDAvailable) =>
               Len(pubCalls) = 1

C9_Witness ==
    /\ Exited /\ execRet = <<0, "command not found">>
    /\ Len(pubCalls) = 1 /\ pubCalls[1].Status = "FAILURE"
    /\ runErr = NoRunError /\ exitCode = 1

\* C10: with an instance ID override the instance ID lookup is never made
\* and the published instance_id is the override.
C10_InstanceIDOverrideUsed ==
    (args.InstanceID # "") =>
        /\ ~LookedUp("GetInstanceID")
        /\ \A i \in 1..Len(pubCalls) : pubCalls[i].InstanceID = args.InstanceID

C10_Witness ==
    /\ args.InstanceID = "i-abc" /\ args.Region = ""
    /\ LookedUp("GetRegion")
    /\ Len(pubCalls) = 1 /\ pubCalls[1].InstanceID = "i-abc"

\* No collaborator was invoked: executor, identity resolver, publisher.
NothingInvoked == execCalls = <<>> /\ imdsCalls = <<>> /\ pubCalls = <<>>

\* C11: with no region override and a failed region lookup the failure is
\* not fatal: the region is left empty, the publisher is still invoked (once,
\* with an empty region) and run returns an error only if the publish failed.
C11_RegionFailureNotFatal ==
    (args.Region = "" /\ LookedUp("GetRegion") /\ regionErr # Nil) =>
        /\ region = ""
        /\ \A i \in 1..Len(pubCalls) : pubCalls[i].Region = ""
        /\ pc \in {"sending", "returned", "exited"} => Len(pubCalls) = 1
        /\ runErr # NoRunError => (PublishFailed /\ runErr = PublishError(pubErr))

C11_Witness ==
    /\ Exited /\ args.Region = "" /\ regionErr # Nil
    /\ PublishSucceeded /\ pubCalls[1].Region = ""
    /\ runErr = NoRunError

\* C12: with a region override the region lookup is never made and the
\* published region is the override.
C12_RegionOverrideUsed ==
    (args.Region # "") =>
        /\ ~LookedUp("GetRegion")
        /\ \A i \in 1..Len(pubCalls) : pubCalls[i].Region = args.Region

C12_Witness ==
    /\ args.Region = "eu-west-1" /\ args.InstanceID = ""
    /\ LookedUp("GetInstanceID")
    /\ Len(pubCalls) = 1 /\ pubCalls[1].Region = "eu-west-1"

\* C13: every publish call carries the configured retry count unchanged,
\* also when the publish fails.
C13_RetriesPassedThrough ==
    \A i \in 1..Len(pubCalls) : pubCalls[i].Retries = args.Retries

C13_Witness ==
    /\ Exited /\ PublishFailed
    /\ args.Retries = 1 /\ pubCalls[1].Retries = 1

ConfigInvalid ==
    \/ args.QueueURL = ""
    \/ args.ID = ""
    \/ args.Exec = "" /\ args.Status = ""
    \/ args.Status \notin {"", "SUCCESS", "FAILURE"}

\* C16: when the configuration validation fails the process exits with code
\* 2 before any work begins: executor, identity resolver and publisher are
\* never invoked.
C16_InvalidConfigExits2 ==
    ConfigInvalid =>
        /\ NothingInvoked
        /\ pc \in {"main", "exited"}
        /\ Exited => (exitCode = 2 /\ parseErr # Nil)

C16_Witness ==
    /\ Exited /\ args.Status = "BOGUS" /\ args.QueueURL # "" /\ args.ID # ""
    /\ parseErr = "--status must be either SUCCESS or FAILURE"
    /\ exitCode = 2

C18_TimeoutEndsProcess == ctxDone ~> Exited

\* C19: when the overall timeout fires while the child command is running,
\* the publisher is never invoked in that run.
C19_TimeoutDuringCommandNoPublish ==
    (ctxDoneAt = "executing") => pubCalls = <<>>

\* C20: for a publish input with retries = N the transport makes at most
\* N + 1 send attempts in that publish call.
C20_AtMostRetriesPlusOneAttempts ==
    pubCalls # <<>> => sendAttempts <= CurrentInput.Retries + 1

\* C21: every message the transport sends carries exactly the attributes
\* signal_id, instance_id and status, each of data type String and each with
\* the value of the corresponding field of the publish input, and its body is
\* the same fixed text whatever the input.
C21_MessageCarriesInput ==
    \A i \in 1..Len(sentMessages) :
        /\ pubCalls # <<>>
        /\ DOMAIN sentMessages[i].MessageAttributes
               = {"signal_id", "instance_id", "status"}
        /\ \A n \in DOMAIN sentMessages[i].MessageAttributes :
               sentMessages[i].MessageAttributes[n].DataType = "String"
        /\ sentMessages[i].MessageAttributes["signal_id"].StringValue
               = CurrentInput.SignalID
        /\ sentMessages[i].MessageAttributes["instance_id"].StringValue
               = CurrentInput.InstanceID
        /\ sentMessages[i].MessageAttributes["status"].StringValue
               = CurrentInput.Status
        /\ sentMessages[i].MessageBody = "tcons-signal message"

C21_Witness ==
    /\ PublishSucceeded /\ Len(sentMessages) = 2
    /\ CurrentInput.Status = "FAILURE" /\ CurrentInput.InstanceID = "i-abc"
    /\ sentMessages[2].MessageAttributes["status"].StringValue = "FAILURE"
    /\ sentMessages[2].MessageAttributes["instance_id"].StringValue = "i-abc"
    /\ sentMessages[2].MessageAttributes["signal_id"].StringValue
           = "test-signal"

\* C22: when DefaultExecutor ran the command, a shell that was launched and
\* completed gives the child's real exit code, in 0..255, with no error; and
\* exit code -1 is returned only together with a launch error, that is only
\* when the shell could not be launched.
C22_MinusOneOnlyWithLaunchError ==
    (cmdRun # NoCmdRun) =>
        /\ cmdRun.kind = "exited" =>
               /\ execRet[1] = cmdRun.code /\ execRet[1] \in 0..255
               /\ execRet[2] = Nil
        /\ execRet[1] = -1 =>
               /\ execRet[2] # Nil
               /\ cmdRun.kind = "not started"

\* The number of empty overrides among --instance-id and --region.
EmptyOverrides ==
    (IF args.InstanceID = "" THEN 1 ELSE 0)
        + (IF args.Region = "" THEN 1 ELSE 0)

\* The identity resolution of run is over and has not failed.
IdentityResolved == pc = "publish" \/ pubCalls # <<>>

\* C23: never more resolver calls are made than there are empty overrides,
\* and in a run whose instance ID lookup did not fail, once the identity is
\* resolved, exactly as many: 2, 1 or 0.
C23_ResolverCallsPerEmptyOverride ==
    /\ Len(imdsCalls) <= EmptyOverrides
    /\ (IdentityResolved /\ idErr = Nil) => Len(imdsCalls) = EmptyOverrides

C23_Witness ==
    /\ Exited /\ PublishSucceeded
    /\ args.InstanceID = "" /\ args.Region = ""
    /\ idErr = Nil /\ regionErr # Nil
    /\ imdsCalls = <<"GetInstanceID", "GetRegion">>

\* The lookup op was made and returned no error.
LookupSucceeded(op) ==
    \E k \in 1..Len(imdsCalls) : imdsCalls[k] = op /\ imdsRets[k][2] = Nil

\* The value the lookup op returned.
LookupValue(op) ==
    imdsRets[CHOOSE k \in 1..Len(imdsCalls) : imdsCalls[k] = op][1]

\* C24: with an empty override and a successful lookup, the publish input
\* carries exactly what the lookup returned: the resolver's instance ID as
\* instance_id, the resolver's region as region.
C24_LookupValueUsedVerbatim ==
    \A i \in 1..Len(pubCalls) :
        /\ (args.InstanceID = "" /\ LookupSucceeded("GetInstanceID")) =>
               pubCalls[i].InstanceID = LookupValue("GetInstanceID")
        /\ (args.Region = "" /\ LookupSucceeded("GetRegion")) =>
               pubCalls[i].Region = LookupValue("GetRegion")

C24_Witness ==
    /\ Exited /\ args.InstanceID = "" /\ args.Region = ""
    /\ LookupSucceeded("GetInstanceID") /\ LookupSucceeded("GetRegion")
    /\ Len(pubCalls) = 1
    /\ pubCalls[1].InstanceID = "i-1234567890abcdef0"
    /\ pubCalls[1].Region = "us-east-1"

\* C25: every publish call carries the configured queue URL, signal ID and
\* publish timeout unchanged.
C25_DestinationAndIdentityUnchanged ==
    \A i \in 1..Len(pubCalls) :
        /\ pubCalls[i].QueueURL = args.QueueURL
        /\ pubCalls[i].SignalID = args.ID
        /\ pubCalls[i].PublishTimeout = args.PublishTimeout

C25_Witness ==
    /\ Exited /\ CommandFailed /\ PublishFailed
    /\ pubCalls[1].QueueURL = "https://sqs/test-queue"
    /\ pubCalls[1].SignalID = "test-signal"
    /\ args.PublishTimeout = 5 /\ pubCalls[1].PublishTimeout = 5

\* The place of a collaborator call in the flow.
StageRank(op) ==
    CASE op = "executor"      -> 1
      [] op = "GetInstanceID" -> 2
      [] op = "GetRegion"     -> 3
      [] op = "publish"       -> 4

\* The collaborator calls of a run that gets to the publish, in order.
ExpectedCalls ==
    (IF args.Status = "" THEN <<"executor">> ELSE <<>>)
        \o (IF args.InstanceID = "" THEN <<"GetInstanceID">> ELSE <<>>)
        \o (IF args.Region = "" THEN <<"GetRegion">> ELSE <<>>)
        \o <<"publish">>

\* C26: the collaborator calls of a run are made in the order executor,
\* instance ID lookup, region lookup, publish, each at most once and none of
\* an earlier stage after one of a later stage; a run that gets to the
\* publish has made exactly the calls its configuration asks for.
C26_CallsInFixedOrder ==
    /\ \A i, j \in 1..Len(callOrder) :
           i < j => StageRank(callOrder[i]) < StageRank(callOrder[j])
    /\ pubCalls # <<>> => callOrder = ExpectedCalls

C26_Witness ==
    /\ Exited /\ CommandFailed
    /\ callOrder = <<"executor", "GetInstanceID", "GetRegion", "publish">>

C28_PublishedInstanceIDNonEmpty ==
    \A i \in 1..Len(pubCalls) : pubCalls[i].InstanceID # ""

\* C29: the transport of a publish call is configured with the region of the
\* publish input when that is non-empty, and with the ambient region only
\* when it is empty.
C29_RegionHintConfiguresTransport ==
    (pubCalls # <<>> /\ awsCfg.Loaded) =>
        awsCfg.Region = IF CurrentInput.Region # ""
                        THEN CurrentInput.Region
                        ELSE ambientRegion

\* C30: the send runs in the publish-timeout scope nested in the
\* overall-timeout scope: once the publish timeout has passed or the overall
\* timeout has fired, no further message is sent and the send ends, with
\* the context's error; and a metadata lookup made after the overall timeout
\* fired fails, as it is given the same overall context.
C30_SendCancelledByEitherTimeout ==
    /\ [][(ctxDone \/ publishCtxDone) => sentMessages' = sentMessages]_vars
    /\ [][(pc = "sending" /\ (ctxDone \/ publishCtxDone) /\ pc' # "sending")
             => pubErr' = "context deadline exceeded"]_vars
    /\ [][(ctxDone /\ imdsRets' # imdsRets)
             => imdsRets'[Len(imdsRets')][2] # Nil]_vars
    /\ (pc = "sending" /\ (ctxDone \/ publishCtxDone)) ~> (pc # "sending")

C30_Witness ==
    /\ ctxDoneAt = "sending" /\ ~publishCtxDone
    /\ PublishFailed /\ pubErr = "context deadline exceeded"
    /\ sendAttempts = 1 /\ Len(sentMessages) = 1

\* ParseConfig returned a configuration: the validation accepted the flags.
ConfigAccepted == pc # "main" /\ parseErr = Nil

\* C31: in every configuration the validation accepted retries is 0 or more,
\* and the attempt count every publish call hands to the transport
\* (retries + 1) is at least 1.
C31_AcceptedRetriesNonNegative ==
    ConfigAccepted =>
        /\ cfg.Retries >= 0
        /\ \A i \in 1..Len(pubCalls) : MaxAttempts(pubCalls[i]) >= 1

\* C32: after a failed instance ID lookup the region lookup is never made:
\* that lookup is the one resolver call of the run and its last collaborator
\* call, the publisher is never called and run has returned.
C32_NoRegionLookupAfterInstanceIDFailure ==
    (idErr # Nil) =>
        /\ imdsCalls = <<"GetInstanceID">>
        /\ ~LookedUp("GetRegion")
        /\ pubCalls = <<>>
        /\ callOrder[Len(callOrder)] = "GetInstanceID"
        /\ Len(callOrder) = Len(execCalls) + 1
        /\ pc \in {"returned", "exited"}

C32_Witness ==
    /\ Exited /\ idErr # Nil /\ args.Region = ""
    /\ callOrder = <<"executor", "GetInstanceID">>
    /\ exitCode = 2

\* run was entered and has returned its result.
RunReturned == pc \in {"returned", "exited"} /\ parseErr = Nil /\ status # ""

C34_PublishedFieldsValid ==
    ConfigAccepted =>
        \A i \in 1..Len(pubCalls) :
            /\ pubCalls[i].Status \in {"SUCCESS", "FAILURE"}
            /\ pubCalls[i].QueueURL # ""
            /\ pubCalls[i].SignalID # ""

C34_Witness ==
    /\ ConfigAccepted /\ Exited /\ LaunchError
    /\ Len(pubCalls) = 1 /\ pubCalls[1].Status = "FAILURE"
    /\ pubCalls[1].QueueURL = "https://sqs/test-queue"
    /\ pubCalls[1].SignalID = "test-signal"

\* C35: when the instance ID lookup or the publish failed, run has returned
\* the result with the status and the exit-early mark computed so far,
\* together with an error made of the prefix "failed to get instance ID: "
\* or "failed to publish signal: " and the underlying cause.
C35_ErrorsWrappedResultKept ==
    /\ (idErr # Nil) =>
           /\ runErr = <<"failed to get instance ID: ", idErr>>
           /\ result.Status = status /\ status # ""
           /\ CommandFailed => (result.ShouldExit /\ result.ExitCode = 1)
    /\ PublishFailed =>
           /\ runErr = <<"failed to publish signal: ", pubErr>>
           /\ result.Status = status /\ status # ""
           /\ CommandFailed => (result.ShouldExit /\ result.ExitCode = 1)

C35_Witness ==
    /\ Exited /\ PublishFailed /\ CommandFailed
    /\ runErr = <<"failed to publish signal: ", "context deadline exceeded">>
    /\ result.ShouldExit /\ result.Status = "FAILURE" /\ exitCode = 2

\* C36: ParseConfig checks the queue URL, the signal ID, the presence of
\* exec or status and the status value, in this order, and returns the
\* message of the first check that fails and no configuration.
C36_ValidationOrderAndMessages ==
    (pc # "main") =>
        /\ parseErr =
               IF args.QueueURL = "" THEN "--queue-url is required"
               ELSE IF args.ID = "" THEN "--id is required"
               ELSE IF args.Exec = "" /\ args.Status = ""
                    THEN "either --exec or --status must be provided"
               ELSE IF args.Status \notin {"", "SUCCESS", "FAILURE"}
                    THEN "--status must be either SUCCESS or FAILURE"
               ELSE Nil
        /\ parseErr # Nil => (cfg = ZeroConfig /\ Exited /\ exitCode = 2)
        /\ parseErr = Nil => cfg = args

C36_Witness ==
    /\ Exited /\ args.QueueURL = "" /\ args.ID = ""
    /\ args.Exec = "" /\ args.Status = "BOGUS"
    /\ parseErr = "--queue-url is required" /\ cfg = ZeroConfig

\* The callers whose call has returned.
DoneCallers == {g \in Callers : callers[g].pc = "done"}

\* C37: whenever no call of a test double is under way, its call count is
\* exactly the number of calls made so far, however they interleaved and
\* whether they returned an error or not; the executor and the publisher
\* have recorded each of these calls once; and after all N calls the count
\* is N.
C37_MockCountsEveryCall ==
    (mock.kind \in MockKinds) =>
        /\ (\A g \in Callers : callers[g].pc \in {"start", "done"}) =>
               /\ CallCount(mock) = Cardinality(DoneCallers)
               /\ Len(mock.rets) = Cardinality(DoneCallers)
               /\ mock.kind # "MockIMDSClient" =>
                      \A g \in DoneCallers :
                          Cardinality({i \in 1..Len(mock.calls) :
                                          mock.calls[i] = g}) = 1
        /\ (DoneCallers = Callers) => CallCount(mock) = NumCallers

C37_Witness ==
    /\ mock.kind = "MockIMDSClient" /\ mock.err # Nil
    /\ DoneCallers = Callers
    /\ CallCount(mock) = NumCallers
    /\ mock.rets[1] = <<2, "mock error">>

\* C38: on a fresh MockPublisher after SetFailFirstNCalls(n), the i-th call
\* of Publish returns the simulated error when i <= n and the configured
\* error (nil by default) when i > n, and the calls are in the recorded call
\* list in the order they were made.
C38_FailsExactlyFirstNCalls ==
    (mock.kind = "MockPublisher") =>
        /\ Len(mock.rets) <= Len(mock.calls)
        /\ \A i \in 1..Len(mock.rets) :
               /\ mock.rets[i][2] = IF i <= mock.failCount
                                    THEN "simulated transient error"
                                    ELSE mock.err
               /\ mock.calls[i] = mock.rets[i][1]

C38_Witness ==
    /\ mock.kind = "MockPublisher" /\ mock.failCount = 2 /\ mock.err = Nil
    /\ DoneCallers = Callers /\ Len(mock.calls) = NumCallers
    /\ mock.rets[1][2] = "simulated transient error"
    /\ mock.rets[2][2] = "simulated transient error"
    /\ mock.rets[3][2] = Nil

====
